---- MODULE Spec2Model ----
(***************************************************************************)
(* Stream resolution core of the movie web app: the translator switch      *)
(* resolver (fetchTranslator, fetchSeriesTranslator, fetchMovieTranslator),*)
(* the stream resolver (fetchSeriesStream, fetchSeriesEpisodesStream,      *)
(* fetchMovieStream) and the series item assembler (fetchItemSeries).      *)
(*                                                                         *)
(* Every exported function is an async function whose body is wrapped in   *)
(* try/catch and which calls itself with retry + 1 from the catch block.   *)
(* The model keeps the chain of awaiting calls as a stack of frames; one   *)
(* action is one synchronous run of a function between two awaits.         *)
(*                                                                         *)
(* Optional values (undefined / null) are sequences of length at most one: *)
(* <<>> is undefined or null, <<v>> is the value v.                        *)
(***************************************************************************)
EXTENDS Integers, Sequences, FiniteSets, TLC

VARIABLES
    call,       \* the external invocation: [entry, args]
    provider,   \* the season list the provider answers get_episodes with
    faults,     \* transient upstream failures still to come
    down,       \* upstream actions that fail on every request
    db,         \* keys of the memoizing cache behind db.getAjaxMovie
    stack,      \* frames of the awaiting calls, innermost last
    ret,        \* completion being delivered to the innermost frame
    sent,       \* upstream requests issued, per action
    failed,     \* upstream requests that failed, per action
    asked,      \* parameters of the upstream requests issued
    rejection,  \* message of the payloads the provider rejects a request with
    tasks,      \* sub-fetches started by fetchStreamDetails
    signal      \* the cancellation token of the call: "none" when the call
                \* has no token, "live" until the caller cancels it

vars == <<call, provider, faults, down, db, stack, ret, sent, failed, asked,
          rejection, tasks, signal>>

----------------------------------------------------------------------------
(* Bounds                                                                  *)

\* season and episode numbers range over 0..MaxNum
MaxNum == 1
\* transient upstream failures injected in one run of SpecRetry
MaxFaults == 4

\* `retry < 3` in every catch block
MaxRetry == 3

Nums == 0..MaxNum
Translators == <<1, 2>>
TranslatorIds == {Translators[i] : i \in 1..Len(Translators)}
Actions == {"get_stream", "get_episodes", "get_movie"}

----------------------------------------------------------------------------
(* Optional values                                                         *)

Null == <<>>
Some(v) == <<v>>
\* JavaScript truthiness of an optional number: undefined and 0 are falsy
Truthy(m) == m # Null /\ m[1] # 0
\* typeof m === 'number'
IsNumber(m) == m # Null

\* lists of at most two items, one of E(a) for each of distinct keys a of
\* S, in every order
ListsOf(S, E(_)) ==
    {<<>>}
    \cup UNION {{<<x>> : x \in E(a)} : a \in S}
    \cup UNION {{<<x, y>> : x \in E(p[1]), y \in E(p[2])} :
                  p \in {q \in S \X S : q[1] # q[2]}}

----------------------------------------------------------------------------
(* Data                                                                    *)

\* parseStream(data): the stream the provider resolved for the parameters
\* of one request (an absent season or episode is the provider's default)
parseStream(translatorId, season, episode) ==
    [translatorId |-> translatorId, season |-> season, episode |-> episode]

\* parseStreamSeasons(data.seasons, data.episodes): season lists in
\* provider order, numbers unique within a list
EpisodeLists == ListsOf(Nums, LAMBDA e : {[number |-> e]})
Trees ==
    ListsOf(Nums, LAMBDA n : {[number |-> n, episodes |-> es] : es \in EpisodeLists})

\* ItemSeriesSeasonStream[] of one translator: every leaf is null or holds
\* the stream resolved for that leaf
ItemEpisodeLists(t, n) ==
    ListsOf(Nums, LAMBDA e :
        {[number |-> e, stream |-> Null],
         [number |-> e, stream |-> Some(parseStream(t, Some(n), Some(e)))]})
ItemTrees(t) ==
    ListsOf(Nums, LAMBDA n :
        {[number |-> n, episodes |-> es] : es \in ItemEpisodeLists(t, n)})

\* ItemSeries whose translator t has the season list `seasons` (null when
\* not fetched yet)
SeriesItem(t, seasons) ==
    [itemType |-> "series",
     translators |-> Translators,
     streams |-> [i \in 1..Len(Translators) |->
                    [translatorId |-> Translators[i],
                     seasons |-> IF Translators[i] = t THEN seasons ELSE Null]]]

\* ItemMovie whose translators in `resolved` have a stream
MovieItem(resolved) ==
    [itemType |-> "movie",
     translators |-> Translators,
     streams |-> [i \in 1..Len(Translators) |->
                    [translatorId |-> Translators[i],
                     stream |-> IF Translators[i] \in resolved
                                THEN Some(parseStream(Translators[i], Null, Null))
                                ELSE Null]]]

\* TranslatorSwitchState: season and episode are optional numbers
States == [season : {Null} \cup {Some(n) : n \in Nums},
           episode : {Null} \cup {Some(n) : n \in Nums}]

----------------------------------------------------------------------------
(* Calls, completions and the upstream                                     *)

\* objects are passed by reference: a frame's args hold the handle of an
\* item, not a copy of it: "item" is the item of the call, "merged" the item
\* the caller built from it
byRef(args) ==
    IF "item" \in DOMAIN args THEN [args EXCEPT !.item = "item"] ELSE args
itemOf(args) ==
    IF args.item = "item" THEN call.args.item ELSE stack[1].loc[1].item

Frame(fn, args, retry) ==
    [fn |-> fn, args |-> args, retry |-> retry, pc |-> "start", loc |-> Null]

NoRet == [kind |-> "none", from |-> "", val |-> Null]

Top == stack[Len(stack)]
Rest == SubSeq(stack, 1, Len(stack) - 1)
Running(fn, pc) == stack # <<>> /\ Top.fn = fn /\ Top.pc = pc

\* `return v`
Returns(v) ==
    /\ stack' = Rest
    /\ ret' = [kind |-> "value", from |-> Top.fn, val |-> v]

\* the catch block with `retry <= 3`: one attempt more
ThrowsOnceMore(err) ==
    IF Top.retry <= MaxRetry
    THEN /\ stack' = Append(Rest, Frame(Top.fn, Top.args, Top.retry + 1))
         /\ ret' = NoRet
    ELSE /\ stack' = Rest
         /\ ret' = [kind |-> "error", from |-> Top.fn, val |-> err]

\* the catch block every function ends with:
\*   if (retry < 3) return await f(args, retry + 1)
\*   throw err
Throws(err) ==
    IF Top.retry < MaxRetry
    THEN /\ stack' = Append(Rest, Frame(Top.fn, Top.args, Top.retry + 1))
         /\ ret' = NoRet
    ELSE /\ stack' = Rest
         /\ ret' = [kind |-> "error", from |-> Top.fn, val |-> err]

\* `await f(args)` with the locals `loc` live across the await
Awaits(fn, args, pc, loc) ==
    /\ stack' = Append(Append(Rest, [Top EXCEPT !.pc = pc, !.loc = loc]),
                       Frame(fn, args, 0))
    /\ ret' = NoRet

Total == sent["get_stream"] + sent["get_episodes"] + sent["get_movie"]

\* what one upstream request comes back as: the payload, a transport error
\* or a payload with success = false
Replies == {"ok", "transport", "rejected"}

\* the fallback messages of lines 235, 262 and 287
defaultMessage(action) ==
    CASE action = "get_movie" -> "Unable to get movie stream details. Try again later."
      [] action = "get_stream" -> "Unable to get episode stream details. Try again later."
      [] action = "get_episodes" -> "Unable to get episodes list. Try again later."

\* data.message ?? fallback: only an absent message gives way
messageOrNullish(message, fallback) ==
    IF message # Null THEN message[1] ELSE fallback

\* data.message || fallback: an absent or empty message gives way
messageOr(message, fallback) ==
    IF message # Null /\ message[1] # "" THEN message[1] ELSE fallback

TypeError ==
    [name |-> "TypeError", at |-> Total,
     message |-> "Cannot read properties of undefined"]
\* the error of a request that came back as `reply`: the transport's, or
\* new Error(data.message || fallback) when the payload has success = false
RequestError(action, reply) ==
    [name |-> reply, at |-> Total + 1,
     message |-> IF reply = "rejected"
                 THEN messageOr(rejection, defaultMessage(action))
                 ELSE "Network Error"]

\* ajax.post('/ajax/get_cdn_series/', params) answered with `reply`
Post(action, params, reply) ==
    /\ sent' = [sent EXCEPT ![action] = @ + 1]
    /\ asked' = asked \cup {[action |-> action, params |-> params]}
    /\ IF reply = "ok"
       THEN /\ action \notin down
            /\ UNCHANGED <<faults, failed>>
       ELSE /\ failed' = [failed EXCEPT ![action] = @ + 1]
            /\ \/ action \in down /\ faults' = faults
               \/ action \notin down /\ faults > 0 /\ faults' = faults - 1

NoPost == UNCHANGED <<sent, failed, asked, faults>>

----------------------------------------------------------------------------
(* Stream resolver                                                         *)

\* fetchSeriesStream going through the memoizing cache as fetchMovieStream
\* does
fetchSeriesStreamCached ==
    /\ Running("fetchSeriesStream", "start")
    /\ LET a == Top.args
           key == [translator_id |-> a.translatorId,
                   season |-> a.season, episode |-> a.episode]
       IN
       IF key \in db
       THEN /\ Returns(parseStream(a.translatorId, Some(a.season), Some(a.episode)))
            /\ UNCHANGED <<sent, failed, asked, faults, db>>
       ELSE \E reply \in Replies :
               /\ Post("get_stream", key, reply)
               /\ IF reply = "ok"
                  THEN /\ db' = db \cup {key}
                       /\ Returns(parseStream(a.translatorId, Some(a.season),
                                              Some(a.episode)))
                  ELSE /\ UNCHANGED db
                       /\ Throws(RequestError("get_stream", reply))
    /\ UNCHANGED <<call, provider, down, rejection, tasks, signal>>

\* fetchSeriesStream: one get_stream request, never cached
fetchSeriesStream ==
    /\ Running("fetchSeriesStream", "start")
    /\ LET a == Top.args IN
       \E reply \in Replies :
          /\ Post("get_stream",
                  [translator_id |-> a.translatorId,
                   season |-> a.season, episode |-> a.episode], reply)
          /\ IF reply = "ok"
             THEN Returns(parseStream(a.translatorId, Some(a.season), Some(a.episode)))
             ELSE Throws(RequestError("get_stream", reply))
    /\ UNCHANGED <<call, provider, down, rejection, tasks, signal, db>>

\* streamForOf defaulting to the lowest season number instead of seasons[0]
streamForOfLowest(seasons, season, episode) ==
    [threw |-> \/ ~Truthy(season) /\ Len(seasons) = 0
               \/ /\ ~Truthy(episode)
                  /\ (Len(seasons) = 0 \/ Len(seasons[1].episodes) = 0),
     season |-> IF Truthy(season) THEN season[1]
                ELSE IF Len(seasons) = 0 THEN 0
                ELSE CHOOSE n \in {seasons[i].number : i \in 1..Len(seasons)} :
                        \A i \in 1..Len(seasons) : n <= seasons[i].number,
     episode |-> IF Truthy(episode) THEN episode[1]
                 ELSE IF Len(seasons) = 0 \/ Len(seasons[1].episodes) = 0 THEN 0
                 ELSE seasons[1].episodes[1].number]

\* streamFor of fetchSeriesEpisodesStream:
\*   season: season || seasons[0].number
\*   episode: episode || seasons[0].episodes[0].number
\* `threw` when the right-hand side reads a property of undefined
streamForOf(seasons, season, episode) ==
    [threw |-> \/ ~Truthy(season) /\ Len(seasons) = 0
               \/ /\ ~Truthy(episode)
                  /\ (Len(seasons) = 0 \/ Len(seasons[1].episodes) = 0),
     season |-> IF Truthy(season) THEN season[1]
                ELSE IF Len(seasons) = 0 THEN 0 ELSE seasons[1].number,
     episode |-> IF Truthy(episode) THEN episode[1]
                 ELSE IF Len(seasons) = 0 \/ Len(seasons[1].episodes) = 0 THEN 0
                 ELSE seasons[1].episodes[1].number]

\* fetchSeriesEpisodesStream: one get_episodes request; season and episode
\* are sent only when they are numbers
fetchSeriesEpisodesStream ==
    /\ Running("fetchSeriesEpisodesStream", "start")
    /\ LET a == Top.args
           streamFor == streamForOf(provider, a.season, a.episode)
       IN
       \E reply \in Replies :
          /\ Post("get_episodes",
                  [translator_id |-> a.translatorId,
                   season |-> a.season, episode |-> a.episode], reply)
          /\ IF reply # "ok" THEN Throws(RequestError("get_episodes", reply))
             ELSE IF streamFor.threw THEN Throws([TypeError EXCEPT !.at = Total + 1])
             ELSE Returns([seasons |-> provider,
                           stream |-> parseStream(a.translatorId, a.season, a.episode),
                           streamFor |-> [season |-> streamFor.season,
                                          episode |-> streamFor.episode]])
    /\ UNCHANGED <<call, provider, down, rejection, tasks, signal, db>>

\* db.getAjaxMovie(args, compute): the memoizing cache holds the payload of
\* `key`, and compute is not run
cached(key) == key \in db

\* db.getAjaxMovie stores what compute resolved under `key`
store(key) == db' = db \cup {key}

\* fetchMovieStream: db.getAjaxMovie(args, compute) runs compute, one
\* get_movie request, only when the key is not cached
fetchMovieStream ==
    /\ Running("fetchMovieStream", "start")
    /\ LET a == Top.args IN
       IF cached(a.translatorId)
       THEN /\ Returns(parseStream(a.translatorId, Null, Null))
            /\ NoPost
            /\ UNCHANGED db
       ELSE \E reply \in Replies :
               /\ Post("get_movie", [translator_id |-> a.translatorId], reply)
               /\ IF reply = "ok"
                  THEN /\ store(a.translatorId)
                       /\ Returns(parseStream(a.translatorId, Null, Null))
                  ELSE /\ UNCHANGED db
                       /\ Throws(RequestError("get_movie", reply))
    /\ UNCHANGED <<call, provider, down, rejection, tasks, signal>>

----------------------------------------------------------------------------
(* Stream details: the fan-out                                             *)

\* the key of a sub-fetch in the cache: db.getStreamThumbnail for the
\* thumbnails of the stream (quality 0), db.getStreamSize for a quality
detailKey(kind, quality) == [kind |-> kind, quality |-> quality]

\* the key a sub-fetch asks the cache for
keyOf(t) == detailKey(t.kind, t.quality)

\* a compute of the key is in flight
computing(key) == \E u \in tasks : u.at = "flying" /\ keyOf(u) = key

\* db.getStreamThumbnail(args, compute) and db.getStreamSize(args, compute)
\* up to the request: the key is found; or a compute of it is in flight and
\* the call waits for that one (at most one compute per key); or compute
\* sends the request
lookup(key) ==
    IF cached(key) THEN "done"
    ELSE IF computing(key) THEN "joined" ELSE "flying"

\* the calls one attempt of fetchStreamDetails makes: fetchStreamThumbnails
\* and one fetchStreamDownloadSize per quality, each at retry 0
subFetches(args, attempt) ==
    {[attempt |-> attempt, kind |-> "thumbnails", quality |-> 0,
      retry |-> 0, at |-> lookup(detailKey("thumbnails", 0))]}
    \cup {[attempt |-> attempt, kind |-> "size",
           quality |-> args.stream.qualities[i], retry |-> 0,
           at |-> lookup(detailKey("size", args.stream.qualities[i]))] :
             i \in 1..Len(args.stream.qualities)}

\* the catch block of a sub-fetch: the function is called again while
\* retry < 3, then the error is thrown
caught(t) ==
    IF t.retry < MaxRetry
    THEN [t EXCEPT !.retry = @ + 1, !.at = lookup(keyOf(t))]
    ELSE [t EXCEPT !.at = "failed"]

\* a sub-fetch whose request is answered whether the token is cancelled or
\* not
subFetchNoSignal(kind) ==
    /\ \E t \in tasks :
          /\ t.kind = kind
          /\ \/ /\ t.at = "flying"
                /\ keyOf(t) \notin down
                /\ store(keyOf(t))
                /\ tasks' = (tasks \ {t}) \cup {[t EXCEPT !.at = "done"]}
                /\ UNCHANGED faults
             \/ /\ t.at = "flying"
                /\ \/ keyOf(t) \in down /\ UNCHANGED faults
                   \/ keyOf(t) \notin down /\ faults > 0 /\ faults' = faults - 1
                /\ tasks' = (tasks \ {t}) \cup {caught(t)}
                /\ UNCHANGED db
             \/ /\ t.at = "joined"
                /\ ~computing(keyOf(t))
                /\ tasks' = (tasks \ {t}) \cup
                      {IF cached(keyOf(t)) THEN [t EXCEPT !.at = "done"]
                       ELSE caught(t)}
                /\ UNCHANGED <<db, faults>>
    /\ UNCHANGED <<call, provider, down, rejection, signal, stack, ret,
                   sent, failed, asked>>

\* a step of fetchStreamThumbnails or fetchStreamDownloadSize after its
\* call of db:
\*   flying: the request, sent with args.signal, is answered and the value
\*           stored; or it fails, by the transport or by the cancelled
\*           token, and the catch block runs
\*   joined: the compute waited for is over; its value is returned, or its
\*           error caught
subFetch(kind) ==
    /\ \E t \in tasks :
          /\ t.kind = kind
          /\ LET cancelled == signal \in {"early", "late"} IN
             \/ /\ t.at = "flying"
                /\ ~cancelled
                /\ keyOf(t) \notin down
                /\ store(keyOf(t))
                /\ tasks' = (tasks \ {t}) \cup {[t EXCEPT !.at = "done"]}
                /\ UNCHANGED faults
             \/ /\ t.at = "flying"
                /\ \/ (cancelled \/ keyOf(t) \in down) /\ UNCHANGED faults
                   \/ /\ ~cancelled /\ keyOf(t) \notin down
                      /\ faults > 0 /\ faults' = faults - 1
                /\ tasks' = (tasks \ {t}) \cup {caught(t)}
                /\ UNCHANGED db
             \/ /\ t.at = "joined"
                /\ ~computing(keyOf(t))
                /\ tasks' = (tasks \ {t}) \cup
                      {IF cached(keyOf(t)) THEN [t EXCEPT !.at = "done"]
                       ELSE caught(t)}
                /\ UNCHANGED <<db, faults>>
    /\ UNCHANGED <<call, provider, down, rejection, signal, stack, ret,
                   sent, failed, asked>>

fetchStreamThumbnails == subFetch("thumbnails")

fetchStreamDownloadSize == subFetch("size")

\* fetchStreamDetails up to its await: the sub-fetches of this attempt are
\* started
fetchStreamDetails ==
    /\ Running("fetchStreamDetails", "start")
    /\ tasks' = tasks \cup subFetches(Top.args, Top.retry)
    /\ stack' = Append(Rest, [Top EXCEPT !.pc = "join"])
    /\ NoPost
    /\ UNCHANGED <<call, provider, down, rejection, signal, db, ret>>

\* the join by Promise.allSettled: the attempt returns what it has once
\* every sub-fetch of it is over
fetchStreamDetailsJoinSettled ==
    /\ Running("fetchStreamDetails", "join")
    /\ LET mine == {t \in tasks : t.attempt = Top.retry} IN
       /\ \A t \in mine : t.at \in {"done", "failed"}
       /\ Returns([thumbnails |-> {t \in mine : t.kind = "thumbnails"},
                   sizes |-> {t \in mine : t.kind = "size"}])
    /\ NoPost
    /\ UNCHANGED <<call, provider, down, rejection, tasks, signal, db>>

\* fetchStreamDetails after `await Promise.all([Promise.all(promises),
\* thumbnailsPromise])`: rejected as soon as one sub-fetch of this attempt
\* has failed, fulfilled once all of them are done
fetchStreamDetailsJoin ==
    /\ Running("fetchStreamDetails", "join")
    /\ LET mine == {t \in tasks : t.attempt = Top.retry} IN
       \/ /\ \E t \in mine : t.at = "failed"
          /\ Throws([name |-> IF signal \in {"early", "late"} THEN "canceled"
                              ELSE "transport",
                     at |-> Top.retry, message |-> "Network Error"])
       \/ /\ \A t \in mine : t.at = "done"
          /\ Returns([thumbnails |-> {t \in mine : t.kind = "thumbnails"},
                      sizes |-> {t \in mine : t.kind = "size"}])
    /\ NoPost
    /\ UNCHANGED <<call, provider, down, rejection, tasks, signal, db>>

\* the caller cancels the token while the call is pending: before any
\* sub-fetch is over ("early") or after one ("late")
abort ==
    /\ stack # <<>>
    /\ signal = "live"
    /\ signal' = IF \E t \in tasks : t.at \in {"done", "failed"}
                 THEN "late" ELSE "early"
    /\ UNCHANGED <<call, provider, faults, down, db, stack, ret, sent, failed,
                   asked, rejection, tasks>>

----------------------------------------------------------------------------
(* Translator switch resolver                                              *)

\* Array.prototype.find as an index: the first index of S, 0 when none
First(S) == IF S = {} THEN 0 ELSE CHOOSE i \in S : \A j \in S : i <= j

\* item.streams.find((s) => s.translatorId === translatorId)!
findStream(item, translatorId) ==
    item.streams[First({i \in 1..Len(item.streams) :
                           item.streams[i].translatorId = translatorId})]

\* seasons.find((s) => s.number === stateTo.season)
findSeason(seasons, season) ==
    First({i \in 1..Len(seasons) : season # Null /\ seasons[i].number = season[1]})

\* season.episodes.find((e) => e.number === stateTo.episode)
findEpisode(episodes, episode) ==
    First({i \in 1..Len(episodes) : episode # Null /\ episodes[i].number = episode[1]})

\* stateToOf without line 370: the clamped episode is not written back to
\* stateTo
stateToOfKeepEpisode(seasons, state) ==
    LET found == findSeason(seasons, state.season)
        si == IF found = 0 THEN 1 ELSE found
        episodes == IF si <= Len(seasons) THEN seasons[si].episodes ELSE <<>>
        foundEp == IF found = 0 THEN 0 ELSE findEpisode(episodes, state.episode)
        ei == IF foundEp = 0 THEN 1 ELSE foundEp
    IN  [threw |-> Len(seasons) = 0 \/ Len(episodes) = 0,
         si |-> si,
         ei |-> ei,
         season |-> IF Len(seasons) = 0 THEN 0 ELSE seasons[si].number,
         episode |-> IF found # 0 /\ foundEp = 0 /\ state.episode # Null
                     THEN state.episode[1]
                     ELSE IF Len(episodes) = 0 THEN 0 ELSE episodes[ei].number]

\* stateToOf falling back to the lowest-numbered season instead of seasons[0]
stateToOfLowest(seasons, state) ==
    LET found == findSeason(seasons, state.season)
        lowest == First({i \in 1..Len(seasons) :
                           \A j \in 1..Len(seasons) :
                              seasons[i].number <= seasons[j].number})
        si == IF found = 0 THEN (IF lowest = 0 THEN 1 ELSE lowest) ELSE found
        episodes == IF si <= Len(seasons) THEN seasons[si].episodes ELSE <<>>
        foundEp == IF found = 0 THEN 0 ELSE findEpisode(episodes, state.episode)
        ei == IF foundEp = 0 THEN 1 ELSE foundEp
    IN  [threw |-> Len(seasons) = 0 \/ Len(episodes) = 0,
         si |-> si,
         ei |-> ei,
         season |-> IF Len(seasons) = 0 THEN 0 ELSE seasons[si].number,
         episode |-> IF Len(episodes) = 0 THEN 0 ELSE episodes[ei].number]

\* the clamp of fetchSeriesTranslator: the indices si, ei of the season and
\* episode it settles on and the stateTo it leaves; `threw` when it reads a
\* property of seasons[0] or season.episodes[0] that is undefined
stateToOf(seasons, state) ==
    LET found == findSeason(seasons, state.season)
        si == IF found = 0 THEN 1 ELSE found
        episodes == IF si <= Len(seasons) THEN seasons[si].episodes ELSE <<>>
        foundEp == IF found = 0 THEN 0 ELSE findEpisode(episodes, state.episode)
        ei == IF foundEp = 0 THEN 1 ELSE foundEp
    IN  [threw |-> Len(seasons) = 0 \/ Len(episodes) = 0,
         si |-> si,
         ei |-> ei,
         season |-> IF Len(seasons) = 0 THEN 0 ELSE seasons[si].number,
         episode |-> IF Len(episodes) = 0 THEN 0 ELSE episodes[ei].number]

\* withStream testing the season number only
withStreamSeasonOnly(seasons, stream, streamFor) ==
    [i \in 1..Len(seasons) |->
        [number |-> seasons[i].number,
         episodes |-> [j \in 1..Len(seasons[i].episodes) |->
            [number |-> seasons[i].episodes[j].number,
             stream |-> IF seasons[i].number = streamFor.season
                        THEN Some(stream) ELSE Null]]]]

\* seasons.map(... episodes.map(... stream: s.number === streamFor.season &&
\* e.number === streamFor.episode ? stream : null))
withStream(seasons, stream, streamFor) ==
    [i \in 1..Len(seasons) |->
        [number |-> seasons[i].number,
         episodes |-> [j \in 1..Len(seasons[i].episodes) |->
            [number |-> seasons[i].episodes[j].number,
             stream |-> IF /\ seasons[i].number = streamFor.season
                           /\ seasons[i].episodes[j].number = streamFor.episode
                        THEN Some(stream) ELSE Null]]]]

\* resolveLeaf without the `if (!episode.stream)` test: the stream is
\* fetched whether the leaf holds one or not
resolveLeafAlways(seasons, initial) ==
    LET a == Top.args
        to == stateToOf(seasons, a.state)
        stateTo == [season |-> to.season, episode |-> to.episode]
    IN  IF to.threw THEN Throws(TypeError)
        ELSE Awaits("fetchSeriesStream",
                    [translatorId |-> a.translatorId,
                     season |-> stateTo.season, episode |-> stateTo.episode],
                    "stream", Some([stateTo |-> stateTo, initial |-> initial]))

\* resolveLeaf fetching the stream of the requested season and episode
\* instead of the clamped ones
resolveLeafRequested(seasons, initial) ==
    LET a == Top.args
        to == stateToOf(seasons, a.state)
        stateTo == [season |-> to.season, episode |-> to.episode]
    IN  IF to.threw THEN Throws(TypeError)
        ELSE IF seasons[to.si].episodes[to.ei].stream = Null
        THEN Awaits("fetchSeriesStream",
                    [translatorId |-> a.translatorId,
                     season |-> IF a.state.season # Null THEN a.state.season[1]
                                ELSE stateTo.season,
                     episode |-> IF a.state.episode # Null THEN a.state.episode[1]
                                 ELSE stateTo.episode],
                    "stream", Some([stateTo |-> stateTo, initial |-> initial]))
        ELSE Returns([type |-> "series", stateTo |-> stateTo,
                      initial |-> initial, next |-> Null])

\* fetchSeriesTranslator from the clamp on, with the season list in hand
resolveLeaf(seasons, initial) ==
    LET a == Top.args
        to == stateToOf(seasons, a.state)
        stateTo == [season |-> to.season, episode |-> to.episode]
    IN  IF to.threw THEN Throws(TypeError)
        ELSE IF seasons[to.si].episodes[to.ei].stream = Null
        THEN Awaits("fetchSeriesStream",
                    [translatorId |-> a.translatorId,
                     season |-> stateTo.season, episode |-> stateTo.episode],
                    "stream", Some([stateTo |-> stateTo, initial |-> initial]))
        ELSE Returns([type |-> "series", stateTo |-> stateTo,
                      initial |-> initial, next |-> Null])

\* fetchSeriesTranslator up to its first await
fetchSeriesTranslator ==
    /\ Running("fetchSeriesTranslator", "start")
    /\ LET a == Top.args
           seasons == findStream(itemOf(a), a.translatorId).seasons
       IN  IF seasons = Null
           THEN Awaits("fetchSeriesEpisodesStream",
                       [translatorId |-> a.translatorId,
                        season |-> Null, episode |-> Null],
                       "episodes", Null)
           ELSE resolveLeaf(seasons[1], Null)
    /\ NoPost
    /\ UNCHANGED <<call, provider, down, rejection, tasks, signal, db>>

\* fetchSeriesTranslator after `await fetchSeriesEpisodesStream(...)`
fetchSeriesTranslatorEpisodes ==
    /\ Running("fetchSeriesTranslator", "episodes")
    /\ ret.kind # "none"
    /\ IF ret.kind = "error" THEN Throws(ret.val)
       ELSE LET seasons == withStream(ret.val.seasons, ret.val.stream,
                                      ret.val.streamFor)
            IN  resolveLeaf(seasons, Some(seasons))
    /\ NoPost
    /\ UNCHANGED <<call, provider, down, rejection, tasks, signal, db>>

\* fetchSeriesTranslatorStream swallowing the error of fetchSeriesStream and
\* returning what it has: stateTo and the tree, without the leaf
fetchSeriesTranslatorStreamPartial ==
    /\ Running("fetchSeriesTranslator", "stream")
    /\ ret.kind # "none"
    /\ LET l == Top.loc[1] IN
       Returns([type |-> "series", stateTo |-> l.stateTo,
                initial |-> l.initial,
                next |-> IF ret.kind = "error" THEN Null
                         ELSE Some([stream |-> ret.val, streamFor |-> l.stateTo])])
    /\ NoPost
    /\ UNCHANGED <<call, provider, down, rejection, tasks, signal, db>>

\* fetchSeriesTranslatorStream storing the stream in the leaf of the item it
\* was passed instead of only reporting it
fetchSeriesTranslatorStreamInPlace ==
    /\ Running("fetchSeriesTranslator", "stream")
    /\ ret.kind # "none"
    /\ IF ret.kind = "error"
       THEN Throws(ret.val) /\ UNCHANGED call
       ELSE LET l == Top.loc[1]
                res == [type |-> "series", stateTo |-> l.stateTo,
                        initial |-> l.initial,
                        next |-> Some([stream |-> ret.val, streamFor |-> l.stateTo])]
            IN  /\ Returns(res)
                /\ call' = [call EXCEPT !.args.item =
                              [@ EXCEPT !.streams =
                                 [i \in 1..Len(@) |->
                                    IF @[i].translatorId # Top.args.translatorId
                                       \/ @[i].seasons = Null
                                    THEN @[i]
                                    ELSE [@[i] EXCEPT !.seasons =
                                            Some([n \in 1..Len(@[1]) |->
                                               [@[1][n] EXCEPT !.episodes =
                                                  [j \in 1..Len(@) |->
                                                     IF /\ @[j].number = l.stateTo.episode
                                                        /\ call.args.item.streams[i].seasons[1][n].number = l.stateTo.season
                                                     THEN [@[j] EXCEPT !.stream = Some(ret.val)]
                                                     ELSE @[j]]]])]]]]
    /\ NoPost
    /\ UNCHANGED <<provider, down, rejection, tasks, signal, db>>

\* fetchSeriesTranslatorStream reporting the requested season and episode
\* as streamFor instead of the clamped ones
fetchSeriesTranslatorStreamRequested ==
    /\ Running("fetchSeriesTranslator", "stream")
    /\ ret.kind # "none"
    /\ IF ret.kind = "error" THEN Throws(ret.val)
       ELSE LET l == Top.loc[1]
                st == Top.args.state
            IN
            Returns([type |-> "series", stateTo |-> l.stateTo,
                     initial |-> l.initial,
                     next |-> Some([stream |-> ret.val,
                                    streamFor |->
                                       [season |-> IF st.season # Null
                                                   THEN st.season[1]
                                                   ELSE l.stateTo.season,
                                        episode |-> IF st.episode # Null
                                                    THEN st.episode[1]
                                                    ELSE l.stateTo.episode]])])
    /\ NoPost
    /\ UNCHANGED <<call, provider, down, rejection, tasks, signal, db>>

\* fetchSeriesTranslator after `await fetchSeriesStream(...)`
fetchSeriesTranslatorStream ==
    /\ Running("fetchSeriesTranslator", "stream")
    /\ ret.kind # "none"
    /\ IF ret.kind = "error" THEN Throws(ret.val)
       ELSE LET l == Top.loc[1] IN
            Returns([type |-> "series", stateTo |-> l.stateTo,
                     initial |-> l.initial,
                     next |-> Some([stream |-> ret.val, streamFor |-> l.stateTo])])
    /\ NoPost
    /\ UNCHANGED <<call, provider, down, rejection, tasks, signal, db>>

\* fetchMovieTranslator without the `if (foundStream) return` test
fetchMovieTranslatorAlways ==
    /\ Running("fetchMovieTranslator", "start")
    /\ LET a == Top.args IN
       Awaits("fetchMovieStream", [translatorId |-> a.translatorId],
              "stream", Null)
    /\ NoPost
    /\ UNCHANGED <<call, provider, down, rejection, tasks, signal, db>>

\* fetchMovieTranslator up to its await
fetchMovieTranslator ==
    /\ Running("fetchMovieTranslator", "start")
    /\ LET a == Top.args
           foundStream == findStream(itemOf(a), a.translatorId).stream
       IN  IF foundStream # Null
           THEN Returns([type |-> "movie", stream |-> Null])
           ELSE Awaits("fetchMovieStream", [translatorId |-> a.translatorId],
                       "stream", Null)
    /\ NoPost
    /\ UNCHANGED <<call, provider, down, rejection, tasks, signal, db>>

\* fetchMovieTranslator after `await fetchMovieStream(...)`
fetchMovieTranslatorStream ==
    /\ Running("fetchMovieTranslator", "stream")
    /\ ret.kind # "none"
    /\ IF ret.kind = "error" THEN Throws(ret.val)
       ELSE Returns([type |-> "movie", stream |-> Some(ret.val)])
    /\ NoPost
    /\ UNCHANGED <<call, provider, down, rejection, tasks, signal, db>>

\* fetchTranslator up to its await: dispatch on item.itemType
fetchTranslator ==
    /\ Running("fetchTranslator", "start")
    /\ LET a == Top.args IN
       IF itemOf(a).itemType = "series"
       THEN Awaits("fetchSeriesTranslator",
                   [item |-> a.item, translatorId |-> a.translatorId,
                    state |-> a.state], "switch", Null)
       ELSE Awaits("fetchMovieTranslator",
                   [item |-> a.item, translatorId |-> a.translatorId],
                   "switch", Null)
    /\ NoPost
    /\ UNCHANGED <<call, provider, down, rejection, tasks, signal, db>>

\* fetchTranslator rethrowing at once, without its own retries
fetchTranslatorSwitchNoRetry ==
    /\ Running("fetchTranslator", "switch")
    /\ ret.kind # "none"
    /\ IF ret.kind = "error"
       THEN /\ stack' = Rest
            /\ ret' = [ret EXCEPT !.from = Top.fn]
       ELSE Returns(ret.val)
    /\ NoPost
    /\ UNCHANGED <<call, provider, down, rejection, tasks, signal, db>>

\* fetchTranslator after its await
fetchTranslatorSwitch ==
    /\ Running("fetchTranslator", "switch")
    /\ ret.kind # "none"
    /\ IF ret.kind = "error" THEN Throws(ret.val) ELSE Returns(ret.val)
    /\ NoPost
    /\ UNCHANGED <<call, provider, down, rejection, tasks, signal, db>>

----------------------------------------------------------------------------
(* Item assembler                                                          *)

\* fetchItemSeries up to its await
fetchItemSeries ==
    /\ Running("fetchItemSeries", "start")
    /\ LET a == Top.args IN
       Awaits("fetchSeriesEpisodesStream",
              [translatorId |-> a.translator, season |-> a.season,
               episode |-> a.episode], "episodes", Null)
    /\ NoPost
    /\ UNCHANGED <<call, provider, down, rejection, tasks, signal, db>>

\* fetchItemSeries after `await fetchSeriesEpisodesStream(...)`
fetchItemSeriesEpisodes ==
    /\ Running("fetchItemSeries", "episodes")
    /\ ret.kind # "none"
    /\ IF ret.kind = "error" THEN Throws(ret.val)
       ELSE LET a == Top.args
                translators == a.baseItem.translators
            IN  Returns(
                  [itemType |-> "series",
                   translators |-> translators,
                   streams |-> [i \in 1..Len(translators) |->
                      [translatorId |-> translators[i],
                       seasons |-> IF translators[i] = a.translator
                                   THEN Some(withStream(ret.val.seasons,
                                                        ret.val.stream,
                                                        ret.val.streamFor))
                                   ELSE Null]]])
    /\ NoPost
    /\ UNCHANGED <<call, provider, down, rejection, tasks, signal, db>>

\* fetchItemMovie up to its await
fetchItemMovie ==
    /\ Running("fetchItemMovie", "start")
    /\ LET a == Top.args IN
       Awaits("fetchMovieStream", [translatorId |-> a.translator], "stream", Null)
    /\ NoPost
    /\ UNCHANGED <<call, provider, down, rejection, tasks, signal, db>>

\* fetchItemMovie after `await fetchMovieStream(...)`
fetchItemMovieStream ==
    /\ Running("fetchItemMovie", "stream")
    /\ ret.kind # "none"
    /\ IF ret.kind = "error" THEN Throws(ret.val)
       ELSE LET a == Top.args
                translators == a.baseItem.translators
            IN  Returns(
                  [itemType |-> "movie",
                   translators |-> translators,
                   streams |-> [i \in 1..Len(translators) |->
                      [translatorId |-> translators[i],
                       stream |-> IF translators[i] = a.translator
                                  THEN Some(ret.val) ELSE Null]]])
    /\ NoPost
    /\ UNCHANGED <<call, provider, down, rejection, tasks, signal, db>>

\* parseItemDocument(data, fullId): the base item of the page, its
\* translators in document order
parseItemDocument(data) ==
    [ogType |-> data.ogType, translators |-> data.translators]

\* the active translator taken as the lowest id of the page
activeTranslatorLowest(translators, translatorId) ==
    CHOOSE t \in {translators[i] : i \in 1..Len(translators)} :
        \A i \in 1..Len(translators) : t <= translators[i]

\* baseItem.translators.find((t) => t.id === translatorId) || baseItem.translators[0]
activeTranslator(translators, translatorId) ==
    LET found == First({i \in 1..Len(translators) :
                          translatorId # Null /\ translators[i] = translatorId[1]})
    IN  IF found # 0 THEN translators[found] ELSE translators[1]

\* fetchItem up to its second await: db.getItem hands over the document,
\* from the cache or from html.get, or html.get fails; then the dispatch on
\* baseItem.ogType
fetchItem ==
    /\ Running("fetchItem", "start")
    /\ LET a == Top.args
           baseItem == parseItemDocument(a.fullId)
           translator == activeTranslator(baseItem.translators, a.translatorId)
       IN  \/ /\ UNCHANGED faults
              /\ IF baseItem.ogType = "video.movie"
                 THEN Awaits("fetchItemMovie",
                             [baseItem |-> [translators |-> baseItem.translators],
                              translator |-> translator], "item", Null)
                 ELSE Awaits("fetchItemSeries",
                             [baseItem |-> [translators |-> baseItem.translators],
                              translator |-> translator,
                              season |-> a.season, episode |-> a.episode],
                             "item", Null)
           \/ /\ faults > 0
              /\ faults' = faults - 1
              /\ Throws([name |-> "transport", at |-> Total, message |-> "Network Error"])
    /\ UNCHANGED <<call, provider, down, rejection, tasks, signal, db, sent, failed, asked>>

\* fetchItem after `await fetchItemMovie(...)` or `await fetchItemSeries(...)`
fetchItemAssembled ==
    /\ Running("fetchItem", "item")
    /\ ret.kind # "none"
    /\ IF ret.kind = "error" THEN Throws(ret.val) ELSE Returns(ret.val)
    /\ NoPost
    /\ UNCHANGED <<call, provider, down, rejection, tasks, signal, db>>

----------------------------------------------------------------------------
(* Invocations                                                             *)

\* the season list as the provider reports it: numbers only
bare(seasons) ==
    [i \in 1..Len(seasons) |->
        [number |-> seasons[i].number,
         episodes |-> [j \in 1..Len(seasons[i].episodes) |->
                          [number |-> seasons[i].episodes[j].number]]]]

Switch(item, translatorId, state) ==
    [entry |-> "fetchTranslator",
     args |-> [item |-> item, translatorId |-> translatorId, state |-> state]]

Assemble(translatorId, season, episode) ==
    [entry |-> "fetchItemSeries",
     args |-> [baseItem |-> [translators |-> Translators],
               translator |-> translatorId,
               season |-> season, episode |-> episode]]

\* the caller has invoked the entry point: its first attempt is about to
\* run, and nothing was posted yet
Invoked ==
    /\ stack = <<Frame(call.entry, byRef(call.args), 0)>>
    /\ tasks = {}
    /\ signal = "live"
    /\ ret = NoRet
    /\ sent = [a \in Actions |-> 0]
    /\ failed = [a \in Actions |-> 0]
    /\ asked = {}

\* a switch on a series item whose target translator is fetched; it is the
\* item's first translator (the code only compares translator ids)
FetchedSwitch ==
    \E t \in {Translators[1]}, st \in States : \E tree \in ItemTrees(t) :
       /\ call = Switch(SeriesItem(t, Some(tree)), t, st)
       /\ provider = bare(tree)
       /\ db = {}

\* a switch on a series item whose target translator is not fetched yet
UnfetchedSwitch ==
    \E t \in TranslatorIds, st \in States, tree \in Trees :
       /\ call = Switch(SeriesItem(t, Null), t, st)
       /\ provider = tree
       /\ db = {}

\* a switch on a movie item
MovieSwitch ==
    \E resolved \in SUBSET TranslatorIds, t \in TranslatorIds,
       keys \in SUBSET TranslatorIds :
       /\ call = Switch(MovieItem(resolved), t, [season |-> Null, episode |-> Null])
       /\ provider = <<>>
       /\ db = keys

\* the assembly of a series item
Assembly ==
    \E t \in TranslatorIds, st \in States, tree \in Trees :
       /\ call = Assemble(t, st.season, st.episode)
       /\ provider = tree
       /\ db = {}

\* every input of the bounded domain, against a provider that answers
Init ==
    /\ FetchedSwitch \/ UnfetchedSwitch \/ MovieSwitch \/ Assembly
    /\ faults = 0
    /\ down = {}
    /\ rejection = Null
    /\ Invoked

Next ==
    \/ fetchTranslator
    \/ fetchTranslatorSwitch
    \/ fetchSeriesTranslator
    \/ fetchSeriesTranslatorEpisodes
    \/ fetchSeriesTranslatorStream
    \/ fetchMovieTranslator
    \/ fetchMovieTranslatorStream
    \/ fetchSeriesStream
    \/ fetchSeriesEpisodesStream
    \/ fetchMovieStream
    \/ fetchItemSeries
    \/ fetchItemSeriesEpisodes

Spec == Init /\ [][Next]_vars

----------------------------------------------------------------------------
(* The same program against an upstream that fails                         *)

\* a provider season list whose first season is not the lowest number
SampleSeasons ==
    <<[number |-> 1, episodes |-> <<[number |-> 1], [number |-> 0]>>],
      [number |-> 0, episodes |-> <<[number |-> 0]>>]>>

\* the sample as fetchItemSeries leaves it for translator t: the first leaf
\* resolved, the others null
SampleTree(t) ==
    withStream(SampleSeasons, parseStream(t, Null, Null),
               [season |-> SampleSeasons[1].number,
                episode |-> SampleSeasons[1].episodes[1].number])

\* fetchSeriesStream called by itself
DirectStream ==
    \E t \in TranslatorIds, season \in Nums, episode \in Nums :
       /\ call = [entry |-> "fetchSeriesStream",
                  args |-> [translatorId |-> t, season |-> season,
                            episode |-> episode]]
       /\ provider = SampleSeasons
       /\ db = {}

SampleSwitch ==
    \E t \in TranslatorIds, st \in States :
       /\ \/ call = Switch(SeriesItem(t, Some(SampleTree(t))), t, st)
          \/ call = Switch(SeriesItem(t, Null), t, st)
          \/ call = Assemble(t, st.season, st.episode)
       /\ provider = SampleSeasons
       /\ db = {}

\* data.message of a rejecting payload: absent, empty or a text
Messages == {Null, Some(""), Some("Episode removed")}

\* the sample inputs, against an upstream on which some actions are down
\* and up to MaxFaults further requests fail
InitRetry ==
    /\ DirectStream \/ SampleSwitch \/ MovieSwitch
    /\ faults = MaxFaults
    /\ down \in SUBSET Actions
    /\ rejection \in Messages
    /\ Invoked

SpecRetry == InitRetry /\ [][Next]_vars

----------------------------------------------------------------------------
(* The item assembler from fetchItem on                                    *)

\* the pages of the provider: a movie or a series, one or two translators
\* in either document order
Pages ==
    [ogType : {"video.movie", "video.tv_series"},
     translators : {<<1>>, <<2>>, <<1, 2>>, <<2, 1>>}]

\* fetchItem on page `page`; the requested translator may be absent from
\* the page (id 3) or not given
FetchItem ==
    \E page \in Pages, translatorId \in {Null, Some(1), Some(2), Some(3)},
       st \in States, keys \in SUBSET TranslatorIds :
       /\ call = [entry |-> "fetchItem",
                  args |-> [fullId |-> page, translatorId |-> translatorId,
                            season |-> st.season, episode |-> st.episode]]
       /\ page.ogType = "video.movie" => st = [season |-> Null, episode |-> Null]
       /\ page.ogType # "video.movie" => keys = {}
       /\ provider = SampleSeasons
       /\ db = keys

InitItem ==
    /\ FetchItem
    /\ faults \in {0, MaxFaults}
    /\ down \in SUBSET {"get_movie", "get_episodes"}
    /\ rejection = Null
    /\ Invoked

NextItem ==
    \/ fetchItem
    \/ fetchItemAssembled
    \/ fetchItemMovie
    \/ fetchItemMovieStream
    \/ fetchMovieStream
    \/ fetchItemSeries
    \/ fetchItemSeriesEpisodes
    \/ fetchSeriesEpisodesStream

SpecItem == InitItem /\ [][NextItem]_vars

----------------------------------------------------------------------------
(* A caller that calls twice                                               *)

\* the seasons `seasons` with the leaf streamFor holding `stream`
withLeaf(seasons, stream, streamFor) ==
    [i \in 1..Len(seasons) |->
        [seasons[i] EXCEPT !.episodes =
            [j \in 1..Len(seasons[i].episodes) |->
                IF /\ seasons[i].number = streamFor.season
                   /\ seasons[i].episodes[j].number = streamFor.episode
                THEN [@[j] EXCEPT !.stream = Some(stream)]
                ELSE @[j]]]]

\* the caller's functional update: a new item whose entry of translatorId
\* takes the reported tree and leaf, or the reported movie stream
merge(item, translatorId, res) ==
    [item EXCEPT !.streams =
        [i \in 1..Len(item.streams) |->
            IF item.streams[i].translatorId # translatorId THEN item.streams[i]
            ELSE IF res.type = "movie"
            THEN [item.streams[i] EXCEPT
                     !.stream = IF res.stream # Null THEN res.stream ELSE @]
            ELSE LET seasons == IF res.initial # Null THEN res.initial
                                ELSE item.streams[i].seasons
                 IN  [item.streams[i] EXCEPT
                         !.seasons =
                            IF res.next = Null \/ seasons = Null THEN seasons
                            ELSE Some(withLeaf(seasons[1], res.next[1].stream,
                                               res.next[1].streamFor))]]]

\* the arguments the caller passes to args.fn, with `item` and `state` for
\* a switch
argsOf(a, item, state) ==
    IF a.fn = "fetchTranslator"
    THEN [item |-> item, translatorId |-> a.translatorId, state |-> state]
    ELSE [translatorId |-> a.translatorId, season |-> a.season,
          episode |-> a.episode]

\* the caller makes its first call
caller ==
    /\ Running("caller", "start")
    /\ LET a == Top.args IN
       Awaits(a.fn,
              argsOf(a, "item", IF a.fn = "fetchTranslator" THEN a.state ELSE Null),
              "first", Null)
    /\ NoPost
    /\ UNCHANGED <<call, provider, down, rejection, tasks, signal, db>>

\* the first call is over: the caller gives up on an error; else it calls
\* again, a switch on the merged item with the reported stateTo when it
\* merges, the same call when it does not
callerFirst ==
    /\ Running("caller", "first")
    /\ ret.kind # "none"
    /\ IF ret.kind = "error"
       THEN /\ stack' = Rest
            /\ ret' = [ret EXCEPT !.from = "caller"]
       ELSE LET a == Top.args
                res == ret.val
                loc == [first |-> res,
                        item |-> IF a.fn = "fetchTranslator" /\ a.merge
                                 THEN merge(call.args.item, a.translatorId, res)
                                 ELSE Null,
                        sent |-> sent]
            IN  IF a.fn = "fetchTranslator" /\ a.merge
                THEN Awaits(a.fn,
                            argsOf(a, "merged",
                                   IF res.type = "series"
                                   THEN [season |-> Some(res.stateTo.season),
                                         episode |-> Some(res.stateTo.episode)]
                                   ELSE a.state),
                            "second", Some(loc))
                ELSE Awaits(a.fn,
                            argsOf(a, "item",
                                   IF a.fn = "fetchTranslator" THEN a.state ELSE Null),
                            "second", Some(loc))
    /\ NoPost
    /\ UNCHANGED <<call, provider, down, rejection, tasks, signal, db>>

\* the second call is over
callerSecond ==
    /\ Running("caller", "second")
    /\ ret.kind # "none"
    /\ IF ret.kind = "error"
       THEN /\ stack' = Rest
            /\ ret' = [ret EXCEPT !.from = "caller"]
       ELSE Returns([first |-> Top.loc[1].first, second |-> ret.val,
                     between |-> Top.loc[1].sent])
    /\ NoPost
    /\ UNCHANGED <<call, provider, down, rejection, tasks, signal, db>>

\* the item fetchItemSeries assembles for translator t from the provider's
\* list `tree`, called without season and episode
AssembledTree(t, tree) ==
    withStream(tree, parseStream(t, Null, Null),
               [season |-> tree[1].number, episode |-> tree[1].episodes[1].number])

\* two switches on a series item, fetched (the item's first translator) or
\* not, over every list of the provider; the caller merges, and the
\* provider answers
TwoSwitches ==
    \E st \in States, tree \in Trees :
       /\ \/ /\ Len(tree) > 0 /\ Len(tree[1].episodes) > 0
             /\ \E t \in {Translators[1]} :
                   call = [entry |-> "caller",
                           args |-> [fn |-> "fetchTranslator", merge |-> TRUE,
                                     item |-> SeriesItem(t, Some(AssembledTree(t, tree))),
                                     translatorId |-> t, state |-> st]]
          \/ \E t \in TranslatorIds :
                call = [entry |-> "caller",
                        args |-> [fn |-> "fetchTranslator", merge |-> TRUE,
                                  item |-> SeriesItem(t, Null),
                                  translatorId |-> t, state |-> st]]
       /\ provider = tree
       /\ db = {}
       /\ faults = 0
       /\ down = {}

\* two calls on the sample, against an upstream that fails: switches on a
\* series or a movie item, or the stream resolver called directly
TwoSampleCalls ==
    /\ \E t \in TranslatorIds, st \in States, m \in BOOLEAN :
          \/ \E item \in {SeriesItem(t, Some(SampleTree(t))), SeriesItem(t, Null)} :
                call = [entry |-> "caller",
                        args |-> [fn |-> "fetchTranslator", merge |-> m,
                                  item |-> item, translatorId |-> t, state |-> st]]
          \/ /\ st = [season |-> Null, episode |-> Null]
             /\ \E resolved \in SUBSET TranslatorIds :
                   call = [entry |-> "caller",
                           args |-> [fn |-> "fetchTranslator", merge |-> m,
                                     item |-> MovieItem(resolved),
                                     translatorId |-> t, state |-> st]]
          \/ /\ m = FALSE
             /\ call = [entry |-> "caller",
                        args |-> [fn |-> "fetchSeriesEpisodesStream",
                                  translatorId |-> t,
                                  season |-> st.season, episode |-> st.episode]]
          \/ /\ m = FALSE /\ st.season # Null /\ st.episode # Null
             /\ call = [entry |-> "caller",
                        args |-> [fn |-> "fetchSeriesStream", translatorId |-> t,
                                  season |-> st.season[1], episode |-> st.episode[1]]]
    /\ provider = SampleSeasons
    /\ db = {}
    /\ faults \in {0, MaxFaults}
    /\ down \in SUBSET Actions

InitAgain ==
    /\ TwoSwitches \/ TwoSampleCalls
    /\ rejection = Null
    /\ Invoked

NextAgain ==
    \/ caller
    \/ callerFirst
    \/ callerSecond
    \/ fetchTranslator
    \/ fetchTranslatorSwitch
    \/ fetchSeriesTranslator
    \/ fetchSeriesTranslatorEpisodes
    \/ fetchSeriesTranslatorStream
    \/ fetchMovieTranslator
    \/ fetchMovieTranslatorStream
    \/ fetchSeriesStream
    \/ fetchSeriesEpisodesStream
    \/ fetchMovieStream

SpecAgain == InitAgain /\ [][NextAgain]_vars

----------------------------------------------------------------------------
(* The details of a stream                                                 *)

\* the cache keys of the sub-fetches of a stream with qualities qs
detailKeys(qs) ==
    {detailKey("thumbnails", 0)} \cup {detailKey("size", qs[i]) : i \in 1..Len(qs)}

\* fetchStreamDetails on the stream `qs` of qualities, with a cancellation
\* token or without one; some keys are cached from before, the requests of
\* the keys in `down`, at most `broken` of them, fail
FetchDetails(qs, token, broken) ==
    /\ \E keys \in SUBSET detailKeys(qs) :
          /\ call = [entry |-> "fetchStreamDetails",
                     args |-> [stream |-> [qualities |-> qs]],
                     cached |-> keys]
          /\ db = keys
    /\ down \in {d \in SUBSET detailKeys(qs) : Cardinality(d) <= broken}
    /\ stack = <<Frame(call.entry, call.args, 0)>>
    /\ ret = NoRet
    /\ tasks = {}
    /\ signal = token

\* a stream of one quality, the call cancellable and any resource down; or
\* the call without a token, on a stream of one quality with a flaky
\* transport, or on a stream of two qualities with at most one resource down
InitDetails ==
    /\ \/ FetchDetails(<<1>>, "live", 2) /\ faults = 0
       \/ FetchDetails(<<1>>, "none", 0) /\ faults = MaxFaults
       \/ FetchDetails(<<1, 2>>, "none", 1) /\ faults = 0
    /\ provider = <<>>
    /\ rejection = Null
    /\ sent = [a \in Actions |-> 0]
    /\ failed = [a \in Actions |-> 0]
    /\ asked = {}

NextDetails ==
    \/ fetchStreamDetails
    \/ fetchStreamDetailsJoin
    \/ fetchStreamThumbnails
    \/ fetchStreamDownloadSize
    \/ abort

SpecDetails == InitDetails /\ [][NextDetails]_vars

----------------------------------------------------------------------------
(* Vocabulary of the properties                                            *)

Range(seq) == {seq[i] : i \in 1..Len(seq)}

\* the (season, episode) pairs a season list has a leaf for
Leaves(seasons) ==
    UNION {{<<seasons[i].number, seasons[i].episodes[j].number>> :
               j \in 1..Len(seasons[i].episodes)} : i \in 1..Len(seasons)}

\* the leaves of an item's season list that hold a stream
Resolved(seasons) ==
    UNION {{<<seasons[i].number, seasons[i].episodes[j].number>> :
               j \in {k \in 1..Len(seasons[i].episodes) :
                        seasons[i].episodes[k].stream # Null}} :
           i \in 1..Len(seasons)}

SeriesSwitch ==
    call.entry = "fetchTranslator" /\ call.args.item.itemType = "series"
MovieSwitchCall ==
    call.entry = "fetchTranslator" /\ call.args.item.itemType = "movie"

\* the entry of the switched-to translator in the item passed in
TargetSlot ==
    CHOOSE sl \in Range(call.args.item.streams) :
        sl.translatorId = call.args.translatorId

\* the season list the switch works on: the item's, or the provider's when
\* the translator was not fetched
TargetSeasons ==
    IF TargetSlot.seasons = Null THEN provider ELSE TargetSlot.seasons[1]

Requested == call.args.state
SeasonPresent ==
    /\ Requested.season # Null
    /\ \E l \in Leaves(TargetSeasons) : l[1] = Requested.season[1]
LeafPresent ==
    /\ Requested.season # Null
    /\ Requested.episode # Null
    /\ <<Requested.season[1], Requested.episode[1]>> \in Leaves(TargetSeasons)

\* the first episode of the first season, when the list has one
FirstLeaf(seasons) ==
    IF Len(seasons) = 0 \/ Len(seasons[1].episodes) = 0 THEN {}
    ELSE {<<seasons[1].number, seasons[1].episodes[1].number>>}

\* fetchSeriesTranslator has just returned a result
SwitchReturned == ret.kind = "value" /\ ret.from = "fetchSeriesTranslator"
StateTo == <<ret.val.stateTo.season, ret.val.stateTo.episode>>

\* the call is over: nothing awaits and a value or an error came out
Done == stack = <<>> /\ ret.kind # "none"

----------------------------------------------------------------------------
(* Properties                                                              *)

\* C1: whenever fetchSeriesTranslator returns a result, the stateTo it
\* returns names a leaf of the target translator's season list (the item's,
\* or the one just fetched when the translator was not fetched).
C1_StateToIsLeaf ==
    SwitchReturned => StateTo \in Leaves(TargetSeasons)

\* C1 witness: a switch onto an unfetched translator returned a season
\* other than the requested one
C1_Witness ==
    /\ SwitchReturned
    /\ TargetSlot.seasons = Null
    /\ Requested.season # Null
    /\ Requested.season[1] # StateTo[1]

\* C2: the clamp follows provider order. Requested season absent: stateTo is
\* the first season of the list and its first episode. Season present,
\* episode absent: the requested season and its first episode. Both present:
\* the request itself.
C2_ClampByProviderOrder ==
    SwitchReturned =>
        LET seasons == TargetSeasons IN
        IF ~SeasonPresent
        THEN {StateTo} = FirstLeaf(seasons)
        ELSE IF ~LeafPresent
        THEN \E i \in 1..Len(seasons) :
                /\ seasons[i].number = Requested.season[1]
                /\ Len(seasons[i].episodes) > 0
                /\ StateTo = <<Requested.season[1], seasons[i].episodes[1].number>>
        ELSE StateTo = <<Requested.season[1], Requested.episode[1]>>

\* C2 witness: a requested season that is absent was clamped to a first
\* season that is not the lowest-numbered one
C2_Witness ==
    /\ SwitchReturned
    /\ ~SeasonPresent
    /\ \E l \in Leaves(TargetSeasons) : l[1] < StateTo[1]

\* C3: when the target translator is fetched and the requested leaf holds a
\* stream, the switch issues no upstream request and returns the request as
\* stateTo with neither `initial` nor `next`.
C3_LeafReuse ==
    (/\ SeriesSwitch
     /\ TargetSlot.seasons # Null
     /\ LeafPresent
     /\ <<Requested.season[1], Requested.episode[1]>> \in Resolved(TargetSeasons))
    => /\ Total = 0
       /\ ret.kind # "error"
       /\ SwitchReturned =>
            /\ StateTo = <<Requested.season[1], Requested.episode[1]>>
            /\ ret.val.initial = Null
            /\ ret.val.next = Null

\* C3 witness: such a switch has returned, on a list that also has a leaf
\* without a stream
C3_Witness ==
    /\ SeriesSwitch
    /\ Done
    /\ ret.kind = "value"
    /\ TargetSlot.seasons # Null
    /\ LeafPresent
    /\ <<Requested.season[1], Requested.episode[1]>> \in Resolved(TargetSeasons)
    /\ Resolved(TargetSeasons) # Leaves(TargetSeasons)

\* C4: the clamp comes before the fetch. Every get_stream request of a
\* switch names the target translator and a leaf of its season list, and a
\* switch whose requested season is absent ends on the first season and its
\* first episode.
C4_FetchAfterClamp ==
    SeriesSwitch =>
        /\ \A r \in asked :
              r.action = "get_stream" =>
                 /\ r.params.translator_id = call.args.translatorId
                 /\ <<r.params.season, r.params.episode>> \in Leaves(TargetSeasons)
        /\ (SwitchReturned /\ ~SeasonPresent) =>
              {StateTo} = FirstLeaf(TargetSeasons)

\* C4 witness: a get_stream request went out for a switch whose requested
\* season is absent from the list
C4_Witness ==
    /\ SeriesSwitch
    /\ Requested.season # Null
    /\ ~SeasonPresent
    /\ \E r \in asked : r.action = "get_stream"

\* C5: the result carries `initial` exactly when the target translator was
\* not fetched in the item passed in, and `next` exactly when the leaf it
\* ends on had no stream in the list it used; next.streamFor is stateTo; a
\* fetched `initial` is the provider's list with exactly one leaf holding a
\* stream, the first episode of the first season.
C5_ReturnContract ==
    SwitchReturned =>
        LET initial == ret.val.initial
            next == ret.val.next
            used == IF initial # Null THEN initial[1] ELSE TargetSlot.seasons[1]
        IN  /\ initial # Null <=> TargetSlot.seasons = Null
            /\ next # Null <=> StateTo \notin Resolved(used)
            /\ StateTo \in Leaves(used)
            /\ next # Null =>
                  /\ next[1].streamFor = ret.val.stateTo
                  /\ next[1].stream.translatorId = call.args.translatorId
            /\ initial # Null =>
                  /\ bare(initial[1]) = provider
                  /\ Resolved(initial[1]) # {}
                  /\ Resolved(initial[1]) = FirstLeaf(provider)

\* C5 witness: a result with both `initial` and `next`, on a list whose
\* first season has two episodes
C5_Witness ==
    /\ SwitchReturned
    /\ ret.val.initial # Null
    /\ ret.val.next # Null
    /\ Len(ret.val.initial[1][1].episodes) > 1

\* C6: on a movie item whose target translator holds a stream, the switch
\* issues no upstream request and returns no new stream; when the slot is
\* null, only that translator's stream is asked for and it is returned as
\* the new slot content.
C6_MovieTerminal ==
    MovieSwitchCall =>
        IF TargetSlot.stream # Null
        THEN /\ Total = 0
             /\ ret.kind # "error"
             /\ ret.kind = "value" => ret.val.stream = Null
        ELSE /\ \A r \in asked :
                   /\ r.action = "get_movie"
                   /\ r.params.translator_id = call.args.translatorId
             /\ (ret.kind = "value" /\ ret.from # "fetchMovieStream") =>
                   /\ ret.val.stream # Null
                   /\ ret.val.stream[1].translatorId = call.args.translatorId

\* C6 witness: a switch to a translator that holds a stream is over, with
\* the upstream reachable and nothing cached for that translator
C6_Witness ==
    /\ MovieSwitchCall
    /\ Done
    /\ TargetSlot.stream # Null
    /\ call.args.translatorId \notin db
    /\ "get_movie" \notin down

\* C7: fetchSeriesStream called by itself returns the stream after exactly
\* k + 1 get_stream requests when the first k <= 3 fail, and throws the
\* last error after exactly 4 requests when all fail; every request carries
\* the arguments of the call.
C7_RetryAtLeaf ==
    call.entry = "fetchSeriesStream" =>
        LET a == call.args
            n == sent["get_stream"]
            k == failed["get_stream"]
        IN  /\ \A r \in asked :
                  /\ r.action = "get_stream"
                  /\ r.params = [translator_id |-> a.translatorId,
                                 season |-> a.season, episode |-> a.episode]
            /\ n <= MaxRetry + 1
            /\ ~Done => n = k
            /\ (Done /\ ret.kind = "value") =>
                  /\ k <= MaxRetry
                  /\ n = k + 1
                  /\ ret.val.translatorId = a.translatorId
                  /\ ret.val.season = Some(a.season)
                  /\ ret.val.episode = Some(a.episode)
            /\ (Done /\ ret.kind = "error") =>
                  /\ k = MaxRetry + 1
                  /\ n = k
                  /\ ret.val.at = n

\* C7 witness: the call returned the stream after three failures
C7_Witness ==
    /\ call.entry = "fetchSeriesStream"
    /\ Done
    /\ ret.kind = "value"
    /\ failed["get_stream"] = MaxRetry

\* a switch that asked for a stream is over, every get_stream request having
\* failed and every get_episodes request having succeeded
StreamNeverCame ==
    /\ SeriesSwitch
    /\ Done
    /\ sent["get_stream"] > 0
    /\ failed["get_stream"] = sent["get_stream"]
    /\ failed["get_episodes"] = 0

\* C8 as stated: when every get_stream request fails, fetchTranslator
\* surfaces the error after 4 get_stream requests in all.
C8_FourRequestsInAll ==
    StreamNeverCame => sent["get_stream"] = MaxRetry + 1

\* C8 as amended: the retries of fetchTranslator, fetchSeriesTranslator
\* and fetchSeriesStream multiply; the error is surfaced after 4 * 4 * 4
\* get_stream requests.
C8_NestedRetries ==
    StreamNeverCame =>
        /\ ret.kind = "error"
        /\ ret.from = "fetchTranslator"
        /\ sent["get_stream"] = (MaxRetry + 1) * (MaxRetry + 1) * (MaxRetry + 1)

\* C8 witness: the error came out of a switch onto an unfetched translator
C8_Witness ==
    /\ StreamNeverCame
    /\ ret.kind = "error"
    /\ TargetSlot.seasons = Null

\* C9: fetchSeriesEpisodesStream called without season and episode returns
\* as streamFor the first season of the provider's list and that season's
\* first episode, whatever the numeric order of the numbers.
C9_DefaultTargeting ==
    (/\ ret.kind = "value"
     /\ ret.from = "fetchSeriesEpisodesStream"
     /\ \A r \in asked : r.params.season = Null /\ r.params.episode = Null)
    => /\ ret.val.seasons = provider
       /\ {<<ret.val.streamFor.season, ret.val.streamFor.episode>>}
             = FirstLeaf(provider)

\* C9 witness: the default is neither the lowest season nor the lowest
\* episode of that season
C9_Witness ==
    /\ ret.kind = "value"
    /\ ret.from = "fetchSeriesEpisodesStream"
    /\ \A r \in asked : r.params.season = Null /\ r.params.episode = Null
    /\ \E l \in Leaves(provider) : l[1] < ret.val.streamFor.season
    /\ \E l \in Leaves(provider) :
          /\ l[1] = ret.val.streamFor.season
          /\ l[2] < ret.val.streamFor.episode

\* the stream at leaf l of an item's season list
StreamAt(seasons, l) ==
    LET i == CHOOSE i \in 1..Len(seasons) : seasons[i].number = l[1]
        j == CHOOSE j \in 1..Len(seasons[i].episodes) :
                seasons[i].episodes[j].number = l[2]
    IN  seasons[i].episodes[j].stream[1]

\* the season and episode passed to fetchItemSeries, when given, name a leaf
\* of the provider's list
HintsPresent ==
    LET a == call.args
        season == IF a.season # Null THEN a.season[1] ELSE provider[1].number
    IN  /\ Len(provider) > 0
        /\ \E l \in Leaves(provider) :
              /\ l[1] = season
              /\ a.episode # Null => l[2] = a.episode[1]

\* C10: after fetchItemSeries every translator but the active one has a null
\* season list, and the active one's list has exactly one leaf with a
\* stream: the (season, episode) the upstream resolved the stream for.
C10_SeriesAssembly ==
    (/\ call.entry = "fetchItemSeries"
     /\ Done
     /\ ret.kind = "value"
     /\ HintsPresent)
    => \A sl \in Range(ret.val.streams) :
          IF sl.translatorId # call.args.translator
          THEN sl.seasons = Null
          ELSE /\ sl.seasons # Null
               /\ \E l \in Leaves(sl.seasons[1]) :
                     /\ Resolved(sl.seasons[1]) = {l}
                     /\ LET stream == StreamAt(sl.seasons[1], l) IN
                        /\ stream.translatorId = sl.translatorId
                        /\ stream.season # Null => stream.season[1] = l[1]
                        /\ stream.episode # Null => stream.episode[1] = l[2]

\* the translators of the page fetchItem was called on
PageTranslators == call.args.fullId.translators

\* the translator fetchItem is to make active: the requested one when the
\* page lists it, else the first of the page
Active ==
    IF /\ call.args.translatorId # Null
       /\ call.args.translatorId[1] \in Range(PageTranslators)
    THEN call.args.translatorId[1]
    ELSE PageTranslators[1]

MovieAssembled ==
    /\ call.entry = "fetchItem"
    /\ call.args.fullId.ogType = "video.movie"
    /\ Done
    /\ ret.kind = "value"

\* C11: fetchItem on a movie returns one stream slot per translator, in
\* document order; the slot holds a stream exactly for the active
\* translator, the requested one when the page lists it and else the first
\* of the page.
C11_MovieAssembly ==
    MovieAssembled =>
        /\ ret.val.itemType = "movie"
        /\ Len(ret.val.streams) = Len(PageTranslators)
        /\ \A i \in 1..Len(PageTranslators) :
              /\ ret.val.streams[i].translatorId = PageTranslators[i]
              /\ ret.val.streams[i].stream # Null <=> PageTranslators[i] = Active
              /\ ret.val.streams[i].stream # Null =>
                    ret.val.streams[i].stream[1].translatorId = Active

\* C11 witness: the requested translator is not on the page, and the first
\* translator of the page is not the lowest id
C11_Witness ==
    /\ MovieAssembled
    /\ call.args.translatorId = Some(3)
    /\ PageTranslators = <<2, 1>>
    /\ ret.val.streams[1].stream # Null

\* the caller calls fn twice
TwoCalls(fn) == call.entry = "caller" /\ call.args.fn = fn

\* both calls of the caller returned a value
BothReturned == Done /\ ret.kind = "value" /\ ret.from = "caller"

\* upstream requests of `action` that were answered with a payload
Succeeded(action) == sent[action] - failed[action]

\* C12: two successive successful calls of fetchSeriesEpisodesStream with
\* the same arguments take exactly one get_episodes request that the
\* provider answered, the second call being served from the cache.
C12_EpisodesCached ==
    (TwoCalls("fetchSeriesEpisodesStream") /\ BothReturned)
    => Succeeded("get_episodes") = 1

\* two switches on the same series item, the caller not merging the result
\* of the first
UnmergedSwitches ==
    /\ TwoCalls("fetchTranslator")
    /\ call.args.item.itemType = "series"
    /\ ~call.args.merge

\* C13: two successful calls of fetchSeriesStream with identical arguments
\* take one answered get_stream request each; a switch repeated on an item
\* into which the fetched leaf was not merged fetches that leaf again.
C13_StreamNeverCached ==
    /\ (TwoCalls("fetchSeriesStream") /\ BothReturned) =>
          /\ Succeeded("get_stream") = 2
          /\ sent["get_stream"] > ret.val.between["get_stream"]
          /\ ret.val.second = ret.val.first
    /\ (UnmergedSwitches /\ BothReturned /\ ret.val.first.next # Null) =>
          /\ ret.val.second.next = ret.val.first.next
          /\ sent["get_stream"] > ret.val.between["get_stream"]

\* C13 witness: the repeated switch returned the leaf it had fetched before,
\* after a failed request
C13_Witness ==
    /\ UnmergedSwitches
    /\ BothReturned
    /\ ret.val.first.next # Null
    /\ failed["get_stream"] > 0

\* C16: no step of fetchTranslator or of what it calls changes the item or
\* the desired state the caller passed in, nor the item the caller merged
\* for its second call.
C16_ItemsImmutable ==
    [][/\ call' = call
       /\ (/\ stack # <<>> /\ stack[1].pc = "second"
           /\ stack' # <<>>) => stack'[1].loc = stack[1].loc]_vars

\* C16 witness: after both switches the item of the call still has no
\* stream in the leaf that the first switch fetched and the caller merged
C16_Witness ==
    /\ TwoCalls("fetchTranslator")
    /\ call.args.item.itemType = "series"
    /\ call.args.merge
    /\ BothReturned
    /\ ret.val.first.next # Null
    /\ TargetSlot.seasons # Null
    /\ <<ret.val.first.stateTo.season, ret.val.first.stateTo.episode>>
          \in Leaves(TargetSlot.seasons[1]) \ Resolved(TargetSlot.seasons[1])

\* two switches on a series item, the second on the merged item with the
\* stateTo of the first
MergedSwitches ==
    /\ TwoCalls("fetchTranslator")
    /\ call.args.item.itemType = "series"
    /\ call.args.merge

\* C20: a switch repeated on the merged item with state = stateTo returns
\* the same stateTo, neither `initial` nor `next`, and takes no upstream
\* request.
C20_FixedPoint ==
    /\ (MergedSwitches /\ stack # <<>> /\ stack[1].pc = "second") =>
          sent = stack[1].loc[1].sent
    /\ (MergedSwitches /\ BothReturned) =>
          /\ ret.val.second.stateTo = ret.val.first.stateTo
          /\ ret.val.second.initial = Null
          /\ ret.val.second.next = Null
          /\ sent = ret.val.between

\* C20 witness: the first switch fetched the tree and, the requested
\* episode being absent, the first episode of the requested season; the
\* second switch is over
C20_Witness ==
    /\ MergedSwitches
    /\ BothReturned
    /\ ret.val.first.initial # Null
    /\ ret.val.first.next # Null
    /\ Requested.episode # Null
    /\ Requested.episode # Some(ret.val.first.stateTo.episode)

\* the tree of the unfetched target translator came, and every get_stream
\* request failed
TreeWithoutLeaf ==
    /\ SeriesSwitch
    /\ TargetSlot.seasons = Null
    /\ Succeeded("get_episodes") > 0
    /\ sent["get_stream"] > 0
    /\ failed["get_stream"] = sent["get_stream"]

\* C17: the error fetchTranslator ends with is the one the last request of
\* the call failed with, as it was raised; when the tree of an unfetched
\* translator came but every get_stream request failed, the call ends with
\* an error and reports neither the tree nor stateTo.
C17_ErrorPropagation ==
    (call.entry = "fetchTranslator" /\ Done) =>
        /\ ret.kind = "error" =>
              /\ ret.from = "fetchTranslator"
              /\ DOMAIN ret.val = {"name", "at", "message"}
              /\ ret.val.name \in {"transport", "rejected", "TypeError"}
              /\ ret.val.at = Total
        /\ TreeWithoutLeaf => ret.kind = "error"

\* C17 witness: the call ended with the rejection of its last get_stream
\* request, after the tree had come and a get_episodes request had failed
C17_Witness ==
    /\ Done
    /\ TreeWithoutLeaf
    /\ failed["get_episodes"] > 0
    /\ ret.kind = "error"
    /\ ret.val.name = "rejected"

\* a step in which an upstream request of `action` fails, by the transport
\* or by a payload with success = false
Fails(action) == failed'[action] = failed[action] + 1

\* what a failed request of `action` leads to when the error message of a
\* rejection is to be `message`: no value; the same call once more while
\* retry < 3, and else the error, for a rejection with that message
FailureHandled(action, message) ==
    /\ ret'.kind # "value"
    /\ IF Top.retry < MaxRetry
       THEN /\ stack' = Append(Rest, Frame(Top.fn, Top.args, Top.retry + 1))
            /\ ret' = NoRet
       ELSE /\ stack' = Rest
            /\ ret'.kind = "error"
            /\ ret'.from = Top.fn
            /\ ret'.val.name = "rejected" => ret'.val.message = message

\* C18 as stated: a failed request, rejected or not, yields no stream and
\* is retried like any other; the error of a rejection carries the
\* payload's message, or the default message when the payload has none.
C18_MessageUnlessAbsent ==
    [][\A action \in Actions :
          Fails(action) =>
             FailureHandled(action,
                            IF rejection # Null THEN rejection[1]
                            ELSE defaultMessage(action))]_vars

\* C18 as amended: the error of a rejection carries the payload's message
\* when it is not empty, and the default message when the payload has none
\* or an empty one.
C18_MessageUnlessEmpty ==
    [][\A action \in Actions :
          Fails(action) =>
             FailureHandled(action,
                            IF rejection # Null /\ rejection[1] # ""
                            THEN rejection[1]
                            ELSE defaultMessage(action))]_vars

\* C18 witness: fetchSeriesStream called by itself ended with the default
\* message, the payloads carrying an empty one
C18_Witness ==
    /\ call.entry = "fetchSeriesStream"
    /\ Done
    /\ ret.kind = "error"
    /\ ret.val.name = "rejected"
    /\ rejection = Some("")
    /\ ret.val.message = defaultMessage("get_stream")

\* the call under check is fetchStreamDetails
Details == call.entry = "fetchStreamDetails"

\* the sub-fetches that attempt n of fetchStreamDetails started
Attempt(n) == {t \in tasks : t.attempt = n}

\* every sub-fetch the stream needs, the thumbnails and the size of every
\* quality, was started by attempt n and succeeded
AllSucceeded(n) ==
    /\ \A t \in Attempt(n) : t.at = "done"
    /\ {keyOf(t) : t \in Attempt(n)} = detailKeys(call.args.stream.qualities)

\* the size fetch of quality q failed, after its own retries, on each of the
\* four attempts
SizeFailedEveryAttempt(q) ==
    \A n \in 0..MaxRetry :
       \E t \in Attempt(n) :
          t.kind = "size" /\ t.quality = q /\ t.at = "failed"

\* C14: fetchStreamDetails returns a result only if the thumbnails and the
\* size of every quality all succeeded within one attempt, and the result is
\* that attempt's; when some quality's size fetch failed on every attempt,
\* the call reports an error that carries no thumbnails and no sizes.
C14_FanOutAtomicity ==
    (Details /\ Done) =>
       /\ ret.kind = "value" =>
             \E n \in 0..MaxRetry :
                /\ AllSucceeded(n)
                /\ ret.val.thumbnails \cup ret.val.sizes = Attempt(n)
       /\ (\E i \in 1..Len(call.args.stream.qualities) :
                SizeFailedEveryAttempt(call.args.stream.qualities[i])) =>
             /\ ret.kind = "error"
             /\ DOMAIN ret.val \cap {"thumbnails", "sizes"} = {}

\* C14 witness: the call on two qualities ended with an error although the
\* thumbnails were fetched on every attempt and the size of one quality too;
\* the size of the other quality failed every time
C14_Witness ==
    /\ Details
    /\ Done
    /\ ret.kind = "error"
    /\ Len(call.args.stream.qualities) = 2
    /\ \A n \in 0..MaxRetry :
          \E t \in Attempt(n) : t.kind = "thumbnails" /\ t.at = "done"
    /\ \E q \in {1, 2} : SizeFailedEveryAttempt(q)
    /\ \E q \in {1, 2} :
          \A n \in 0..MaxRetry :
             \E t \in Attempt(n) :
                t.kind = "size" /\ t.quality = q /\ t.at = "done"

\* C15: the requests of sub-fetches started by two different attempts of
\* one fetchStreamDetails call are never in flight at the same time.
C15_RetriesSequential ==
    Details =>
       \A t, u \in tasks :
          (t.at = "flying" /\ u.at = "flying") => t.attempt = u.attempt

====
